---------------------------- MODULE Spec2Model ----------------------------
(***************************************************************************)
(* Model of the shopping-list core of the meal planner:                    *)
(*   src/tools/shopping_list.py  calculate_optimal_servings_distribution,  *)
(*                               ShoppingList                              *)
(*   src/agent.py                MealPlannerAgent._generate_shopping_list  *)
(*                                                                         *)
(* Python strings are sequences of one-character strings.  Python floats   *)
(* are IEEE-754 binary64 values, modelled exactly: a float is a record     *)
(* [m, e] standing for m * 2^e with m a natural number of at most 53 bits, *)
(* kept odd (or zero), and every arithmetic operation rounds to nearest,   *)
(* ties to even, as the hardware does.  Naturals wider than 31 bits are    *)
(* little-endian sequences of limbs in base 2^15.  Only non-negative,      *)
(* finite, normal floats occur for the inputs the model draws.             *)
(*                                                                         *)
(* Six specifications:                                                     *)
(*   Spec       one ShoppingList under any sequence of add_recipe, clear   *)
(*              and get_consolidated_list calls;                           *)
(*   SpecAgent  the runs of one MealPlannerAgent: preferences collected,   *)
(*              recipes selected, _generate_shopping_list;                 *)
(*   SpecDist   calculate_optimal_servings_distribution applied to         *)
(*              arguments drawn at the start.                              *)
(*   SpecSessions  the websocket connections of src/app.py, each with its  *)
(*              own MealPlannerAgent running a planning session.           *)
(*   SpecSelect   one call of MealPlannerAgent._get_recipe_selections;     *)
(*   SpecCollect  one call of MealPlannerAgent._collect_user_preferences.  *)
(***************************************************************************)
EXTENDS Integers, Sequences, FiniteSets

(***************************************************************************)
(* Natural numbers of arbitrary width (the integers behind a float).       *)
(***************************************************************************)
Base == 2^15

RECURSIVE BNorm(_)
BNorm(a) ==
    IF a = <<>> THEN a
    ELSE IF a[Len(a)] = 0 THEN BNorm(SubSeq(a, 1, Len(a) - 1)) ELSE a

RECURSIVE BFromInt(_)
BFromInt(n) == IF n = 0 THEN <<>> ELSE <<n % Base>> \o BFromInt(n \div Base)

RECURSIVE BAddC(_, _, _)
BAddC(a, b, c) ==
    IF a = <<>> /\ b = <<>> THEN (IF c = 0 THEN <<>> ELSE <<c>>)
    ELSE LET x == (IF a = <<>> THEN 0 ELSE a[1]) + (IF b = <<>> THEN 0 ELSE b[1]) + c
         IN  <<x % Base>> \o BAddC(IF a = <<>> THEN a ELSE Tail(a),
                                   IF b = <<>> THEN b ELSE Tail(b), x \div Base)

BAdd(a, b) == BAddC(a, b, 0)

\* a - b for a >= b
RECURSIVE BSubC(_, _, _)
BSubC(a, b, c) ==
    IF a = <<>> THEN <<>>
    ELSE LET x == a[1] - (IF b = <<>> THEN 0 ELSE b[1]) - c
         IN  <<x % Base>> \o BSubC(Tail(a), IF b = <<>> THEN b ELSE Tail(b),
                                   IF x < 0 THEN 1 ELSE 0)

BSub(a, b) == BNorm(BSubC(a, b, 0))

\* -1, 0, 1 as a < b, a = b, a > b (both normalised)
RECURSIVE BCmpFrom(_, _, _)
BCmpFrom(a, b, i) ==
    IF i = 0 THEN 0
    ELSE IF a[i] < b[i] THEN -1
    ELSE IF a[i] > b[i] THEN 1
    ELSE BCmpFrom(a, b, i - 1)

BCmp(a, b) ==
    IF Len(a) < Len(b) THEN -1
    ELSE IF Len(a) > Len(b) THEN 1
    ELSE BCmpFrom(a, b, Len(a))

RECURSIVE BMulSmallC(_, _, _)
BMulSmallC(a, k, c) ==
    IF a = <<>> THEN (IF c = 0 THEN <<>> ELSE <<c>>)
    ELSE LET x == a[1] * k + c
         IN  <<x % Base>> \o BMulSmallC(Tail(a), k, x \div Base)

\* a * k for 0 <= k < Base
BMulSmall(a, k) == IF k = 0 THEN <<>> ELSE BMulSmallC(a, k, 0)

RECURSIVE BMul(_, _)
BMul(a, b) ==
    IF a = <<>> \/ b = <<>> THEN <<>>
    ELSE BAdd(BMulSmall(a, b[1]),
              LET r == BMul(a, Tail(b)) IN IF r = <<>> THEN r ELSE <<0>> \o r)

\* quotient and remainder of the limbs i..Len(a) of a by k, 0 < k < Base
RECURSIVE BDivSmallFrom(_, _, _)
BDivSmallFrom(a, k, i) ==
    IF i > Len(a) THEN [q |-> <<>>, r |-> 0]
    ELSE LET hi == BDivSmallFrom(a, k, i + 1)
             x  == hi.r * Base + a[i]
         IN  [q |-> <<x \div k>> \o hi.q, r |-> x % k]

BDivSmall(a, k) ==
    LET d == BDivSmallFrom(a, k, 1) IN [q |-> BNorm(d.q), r |-> d.r]

RECURSIVE BitLenInt(_)
BitLenInt(n) == IF n = 0 THEN 0 ELSE 1 + BitLenInt(n \div 2)

BBitLen(a) == IF a = <<>> THEN 0 ELSE 15 * (Len(a) - 1) + BitLenInt(a[Len(a)])

BIsOdd(a) == a # <<>> /\ a[1] % 2 = 1

\* a * 2^n
BShl(a, n) ==
    IF a = <<>> THEN a
    ELSE [i \in 1..(n \div 15) |-> 0] \o BMulSmall(a, 2^(n % 15))

\* floor(a / 2^n)
BShr(a, n) ==
    IF n \div 15 >= Len(a) THEN <<>>
    ELSE BDivSmall(SubSeq(a, (n \div 15) + 1, Len(a)), 2^(n % 15)).q

\* bit i of a (bit 0 is the least significant)
BBit(a, i) ==
    IF i \div 15 >= Len(a) THEN 0 ELSE (a[(i \div 15) + 1] \div 2^(i % 15)) % 2

\* the largest d, a multiple of 8^oct below Base, with b * d <= x (three bits
\* of the digit are settled at a time)
RECURSIVE QuotDigit(_, _, _)
QuotDigit(x, b, oct) ==
    IF oct > 4 THEN 0
    ELSE LET hi   == QuotDigit(x, b, oct + 1)
             fits == {t \in 0..7 : BCmp(BMulSmall(b, hi + t * 8^oct), x) <= 0}
         IN  hi + (CHOOSE t \in fits : \A u \in fits : u <= t) * 8^oct

\* quotient and remainder of the limbs i..Len(a) of a by b # 0
RECURSIVE BDivModFrom(_, _, _)
BDivModFrom(a, b, i) ==
    IF i > Len(a) THEN [q |-> <<>>, r |-> <<>>]
    ELSE LET hi == BDivModFrom(a, b, i + 1)
             x  == BNorm(<<a[i]>> \o hi.r)
             d  == QuotDigit(x, b, 0)
         IN  IF BCmp(x, b) < 0 THEN [q |-> <<0>> \o hi.q, r |-> x]
             ELSE [q |-> <<d>> \o hi.q, r |-> BSub(x, BMulSmall(b, d))]

BDivMod(a, b) ==
    IF Len(b) = 1 THEN LET d == BDivSmall(a, b[1]) IN [q |-> d.q, r |-> BFromInt(d.r)]
    ELSE LET d == BDivModFrom(a, b, 1) IN [q |-> BNorm(d.q), r |-> d.r]

\* 10^k
RECURSIVE BPow10(_)
BPow10(k) == IF k = 0 THEN <<1>> ELSE BMulSmall(BPow10(k - 1), 10)

\* 10^s as factors below Base, for dividing limb-wise: 5^6 as often as it
\* goes, the rest of the fives, and the twos apart as a shift
Pow5Factors(s) ==
    [i \in 1..(s \div 6) |-> 5^6] \o (IF s % 6 = 0 THEN <<>> ELSE <<5^(s % 6)>>)

\* floor(a / (ks[1] * ... * ks[n]))
RECURSIVE BDivSmalls(_, _, _)
BDivSmalls(a, ks, n) ==
    IF n = 0 THEN a ELSE BDivSmall(BDivSmalls(a, ks, n - 1), ks[n]).q

\* floor(a / (10^s * 2^k))
BDivPow10(a, s, k) ==
    LET ks == Pow5Factors(s) IN BDivSmalls(BShr(a, s + k), ks, Len(ks))

\* -1, 0, 1 as the remainder a - q * b is below, at or above b / 2, for q = floor(a / b)
HalfCmp(a, b, q) == BCmp(BMulSmall(BSub(a, BMul(q, b)), 2), b)

\* a / b rounded to the nearest natural, ties to the even one, given q = floor(a / b)
RoundHalfEven(a, b, q) ==
    LET c == HalfCmp(a, b, q)
    IN  IF c > 0 \/ (c = 0 /\ BIsOdd(q)) THEN BAdd(q, <<1>>) ELSE q

(***************************************************************************)
(* Python float: binary64, non-negative.  [m, e] is m * 2^e; the canonical *)
(* form has m odd, or m = 0 and e = 0, so equal floats are equal records.  *)
(***************************************************************************)
Precision == 53

\* the number of trailing zero bits of a # 0
TrailingZeros(a) ==
    CHOOSE i \in 0..BBitLen(a) : BBit(a, i) = 1 /\ \A j \in 0..(i - 1) : BBit(a, j) = 0

Canon(m, e) ==
    IF m = <<>> THEN [m |-> <<>>, e |-> 0]
    ELSE LET z == TrailingZeros(m) IN [m |-> BShr(m, z), e |-> e + z]

\* the float nearest to m * 2^e, ties to even
Round53(m, e) ==
    LET bl == BBitLen(m) IN
    IF bl <= Precision THEN Canon(m, e)
    ELSE LET sh   == bl - Precision
             q    == BShr(m, sh)
             rem  == BSub(m, BShl(q, sh))
             c    == BCmp(rem, BShl(<<1>>, sh - 1))
             up   == c > 0 \/ (c = 0 /\ BIsOdd(q))
         IN  Canon(IF up THEN BAdd(q, <<1>>) ELSE q, e + sh)

\* float(n) for an int n >= 0
IntToFloat(n) == Round53(BFromInt(n), 0)

FZero == IntToFloat(0)
FOne == IntToFloat(1)

\* x * y
FMul(x, y) == Round53(BMul(x.m, y.m), x.e + y.e)

\* x + y
FAdd(x, y) ==
    IF x.m = <<>> THEN y
    ELSE IF y.m = <<>> THEN x
    ELSE LET lo == IF x.e < y.e THEN x.e ELSE y.e
         IN  Round53(BAdd(BShl(x.m, x.e - lo), BShl(y.m, y.e - lo)), lo)

\* The correctly rounded quotient (xm * 2^xe) / (ym * 2^ye), ym # 0: the
\* quotient is taken to at least 55 bits, a sticky bit records a remainder.
RoundQuotient(xm, xe, ym, ye) ==
    IF xm = <<>> THEN Canon(<<>>, 0)
    ELSE LET need == Precision + 2 + BBitLen(ym) - BBitLen(xm)
             k    == IF need > 0 THEN need ELSE 0
             d    == BDivMod(BShl(xm, k), ym)
             mm   == BAdd(BMulSmall(d.q, 2), IF d.r = <<>> THEN <<>> ELSE <<1>>)
         IN  Round53(mm, xe - ye - k - 1)

\* x / y for y # 0 (Python raises ZeroDivisionError for y = 0: see the callers)
FDiv(x, y) == RoundQuotient(x.m, x.e, y.m, y.e)

\* -1, 0, 1 as x < y, x = y, x > y
FCmp(x, y) ==
    IF x.m = <<>> /\ y.m = <<>> THEN 0
    ELSE IF x.m = <<>> THEN -1
    ELSE IF y.m = <<>> THEN 1
    ELSE LET lo == IF x.e < y.e THEN x.e ELSE y.e
         IN  BCmp(BShl(x.m, x.e - lo), BShl(y.m, y.e - lo))

FLess(x, y) == FCmp(x, y) < 0

(***************************************************************************)
(* Python str: a sequence of one-character strings.                        *)
(***************************************************************************)
Digits == <<"0", "1", "2", "3", "4", "5", "6", "7", "8", "9">>

IsDigit(c) == \E i \in 1..10 : Digits[i] = c

DigitVal(c) == (CHOOSE i \in 1..10 : Digits[i] = c) - 1

UpperCase ==
    <<"A", "B", "C", "D", "E", "F", "G", "H", "I", "J", "K", "L", "M",
      "N", "O", "P", "Q", "R", "S", "T", "U", "V", "W", "X", "Y", "Z">>

LowerCase ==
    <<"a", "b", "c", "d", "e", "f", "g", "h", "i", "j", "k", "l", "m",
      "n", "o", "p", "q", "r", "s", "t", "u", "v", "w", "x", "y", "z">>

\* The characters of the model in code-point order.
Alphabet == <<" ", "+", "-", ".">> \o Digits \o UpperCase \o LowerCase

Ord(c) == CHOOSE i \in 1..Len(Alphabet) : Alphabet[i] = c

IsUpper(c) == \E i \in 1..26 : UpperCase[i] = c
IsLower(c) == \E i \in 1..26 : LowerCase[i] = c

LowerChar(c) == IF IsUpper(c) THEN LowerCase[CHOOSE i \in 1..26 : UpperCase[i] = c] ELSE c
UpperChar(c) == IF IsLower(c) THEN UpperCase[CHOOSE i \in 1..26 : LowerCase[i] = c] ELSE c

\* str.lower()
Lower(s) == [i \in 1..Len(s) |-> LowerChar(s[i])]

\* str.title(): a cased character is upper-cased when it follows an uncased
\* one (or starts the string) and lower-cased when it follows a cased one.
Title(s) ==
    [i \in 1..Len(s) |->
        IF i > 1 /\ (IsUpper(s[i - 1]) \/ IsLower(s[i - 1]))
        THEN LowerChar(s[i]) ELSE UpperChar(s[i])]

\* s < t in Python's string order (code points, then length)
StrLess(s, t) ==
    LET n    == IF Len(s) < Len(t) THEN Len(s) ELSE Len(t)
        diff == {i \in 1..n : s[i] # t[i]}
        d    == CHOOSE i \in diff : \A j \in diff : i <= j
    IN  IF diff = {} THEN Len(s) < Len(t) ELSE Ord(s[d]) < Ord(t[d])

\* str.rstrip(c)
RStrip(s, c) ==
    LET keep == {i \in 1..Len(s) : s[i] # c}
    IN  IF keep = {} THEN <<>>
        ELSE SubSeq(s, 1, CHOOSE i \in keep : \A j \in keep : j <= i)

\* str.lstrip(c)
LStrip(s, c) ==
    LET keep == {i \in 1..Len(s) : s[i] # c}
    IN  IF keep = {} THEN <<>>
        ELSE SubSeq(s, CHOOSE i \in keep : \A j \in keep : i <= j, Len(s))

\* the four decimal digits of n < 10^4
Digits4(n) ==
    <<Digits[(n \div 1000) + 1], Digits[((n \div 100) % 10) + 1],
      Digits[((n \div 10) % 10) + 1], Digits[(n % 10) + 1]>>

\* the decimal digits of a natural in groups of four, most significant first
RECURSIVE BDecimal4(_)
BDecimal4(a) ==
    IF a = <<>> THEN <<>>
    ELSE LET d == BDivSmall(a, 10000) IN BDecimal4(d.q) \o Digits4(d.r)

\* the decimal digits of a natural, most significant first ("" for 0)
BDecimal(a) == LStrip(BDecimal4(a), "0")

\* the natural a digit string denotes
RECURSIVE BFromDecimal(_)
BFromDecimal(s) ==
    IF s = <<>> THEN <<>>
    ELSE BAdd(BMulSmall(BFromDecimal(SubSeq(s, 1, Len(s) - 1)), 10),
              BFromInt(DigitVal(s[Len(s)])))

\* n copies of the character c
Repeat(c, n) == [i \in 1..n |-> c]

\* the float nearest to d * 10^(-s): as RoundQuotient, dividing by 10^s
DecimalToFloat(d, s) ==
    IF s < 0 THEN Round53(BMul(d, BPow10(-s)), 0)
    ELSE IF d = <<>> THEN Canon(<<>>, 0)
    ELSE LET den  == BPow10(s)
             need == Precision + 2 + BBitLen(den) - BBitLen(d)
             k    == IF need > 0 THEN need ELSE 0
             num  == BShl(d, k)
             q    == BDivPow10(num, s, 0)
             mm   == BAdd(BMulSmall(q, 2), IF BMul(q, den) = num THEN <<>> ELSE <<1>>)
         IN  Round53(mm, 0 - k - 1)

(***************************************************************************)
(* float(s) for a str s.  The result is [ok, val]: ok = FALSE stands for   *)
(* ValueError.  Accepted here: blanks around an optional "+", then digits  *)
(* with at most one "." and at least one digit.  (Python also accepts a    *)
(* "-" sign, an exponent, underscores, "inf" and "nan"; no quantity the    *)
(* model draws has one of these forms.)  The value is the float nearest to *)
(* the decimal, as Python's conversion is correctly rounded.               *)
(***************************************************************************)
ParseFloat(s) ==
    LET t    == RStrip(LStrip(s, " "), " ")
        u    == IF t # <<>> /\ t[1] = "+" THEN Tail(t) ELSE t
        dots == {i \in 1..Len(u) : u[i] = "."}
        ok   == /\ \A i \in 1..Len(u) : IsDigit(u[i]) \/ u[i] = "."
                /\ Cardinality(dots) <= 1
                /\ \E i \in 1..Len(u) : IsDigit(u[i])
        dot  == IF dots = {} THEN Len(u) + 1 ELSE CHOOSE i \in dots : TRUE
        ds   == SubSeq(u, 1, dot - 1) \o SubSeq(u, dot + 1, Len(u))
        k    == IF dots = {} THEN 0 ELSE Len(u) - dot
    IN  IF ok THEN [ok |-> TRUE, val |-> DecimalToFloat(BFromDecimal(ds), k)]
        ELSE [ok |-> FALSE, val |-> Canon(<<>>, 0)]

\* x cut to 2 decimals, not rounded
Format2fTruncated(x) ==
    LET k   == IF x.e < 0 THEN -x.e ELSE 0
        num == BShl(BMulSmall(x.m, 100), IF x.e > 0 THEN x.e ELSE 0)
        ds  == BDecimal(BShr(num, k))
        pad == IF Len(ds) < 3 THEN Repeat("0", 3 - Len(ds)) \o ds ELSE ds
    IN  SubSeq(pad, 1, Len(pad) - 2) \o <<".">> \o SubSeq(pad, Len(pad) - 1, Len(pad))

(***************************************************************************)
(* f"{x:.2f}": x rounded to 2 decimals (the exact binary value, ties to    *)
(* even), with at least one digit before the point.                        *)
(***************************************************************************)
Format2f(x) ==
    LET k   == IF x.e < 0 THEN -x.e ELSE 0
        num == BShl(BMulSmall(x.m, 100), IF x.e > 0 THEN x.e ELSE 0)
        den == BShl(<<1>>, k)
        ds  == BDecimal(RoundHalfEven(num, den, BShr(num, k)))
        pad == IF Len(ds) < 3 THEN Repeat("0", 3 - Len(ds)) \o ds ELSE ds
    IN  SubSeq(pad, 1, Len(pad) - 2) \o <<".">> \o SubSeq(pad, Len(pad) - 1, Len(pad))

(***************************************************************************)
(* str(x) for a float x: the shortest decimal that converts back to x      *)
(* (the nearest to x among the shortest), in repr's layout.  Evaluated for *)
(* the magnitudes quantities have, from 1e-4 up.                           *)
(***************************************************************************)
\* x >= 10^p, for x # 0
AtLeastPow10(x, p) ==
    LET lhs == BShl(BMul(x.m, BPow10(IF p < 0 THEN -p ELSE 0)), IF x.e > 0 THEN x.e ELSE 0)
        rhs == BShl(BPow10(IF p > 0 THEN p ELSE 0), IF x.e < 0 THEN -x.e ELSE 0)
    IN  BCmp(lhs, rhs) >= 0

\* the p with 10^p <= x < 10^(p+1), searched downwards from p
RECURSIVE Exp10From(_, _)
Exp10From(x, p) == IF AtLeastPow10(x, p) THEN p ELSE Exp10From(x, p - 1)

Exp10(x) ==
    LET ip == IF x.e >= 0 THEN BShl(x.m, x.e) ELSE BShr(x.m, -x.e)
    IN  IF ip # <<>> THEN Len(BDecimal(ip)) - 1 ELSE Exp10From(x, -1)

\* The decimals with n digits next to x, nearest first, as naturals d with
\* the decimal being d * 10^(-s).
DecimalsNear(x, s) ==
    LET k    == IF x.e < 0 THEN -x.e ELSE 0
        num  == BShl(BMul(x.m, BPow10(IF s > 0 THEN s ELSE 0)), IF x.e > 0 THEN x.e ELSE 0)
        den  == BShl(BPow10(IF s < 0 THEN -s ELSE 0), k)
        q    == BDivPow10(num, IF s < 0 THEN -s ELSE 0, k)
        c    == HalfCmp(num, den, q)
        up   == BAdd(q, <<1>>)
    IN  IF BMul(q, den) = num THEN <<q>>
        ELSE IF c > 0 \/ (c = 0 /\ BIsOdd(q)) THEN <<up, q>> ELSE <<q, up>>

\* the candidates among the n-digit decimals next to x that convert back to
\* x, given 10^p <= x < 10^(p+1)
RoundTrips(x, p, n) ==
    LET near == DecimalsNear(x, n - 1 - p)
    IN  SelectSeq(near, LAMBDA d : DecimalToFloat(d, n - 1 - p) = x)

\* The least number of digits in lo..hi with which a decimal converts back
\* to x (if n digits do, n + 1 digits do): found by bisection.
RECURSIVE ShortestDigits(_, _, _, _)
ShortestDigits(x, p, lo, hi) ==
    IF lo = hi THEN lo
    ELSE LET mid == (lo + hi) \div 2
         IN  IF RoundTrips(x, p, mid) # <<>> THEN ShortestDigits(x, p, lo, mid)
             ELSE ShortestDigits(x, p, mid + 1, hi)

\* The shortest decimal [d, s] (d * 10^(-s)) that converts back to x, given
\* 10^p <= x < 10^(p+1); 17 significant digits always suffice.
Shortest(x, p) ==
    LET n == ShortestDigits(x, p, 1, 17)
    IN  [d |-> RoundTrips(x, p, n)[1], s |-> n - 1 - p]

\* repr's layout of the digits of the decimal sh = [d, s]
ReprLayout(sh) ==
    LET all   == BDecimal(sh.d)
        ds    == RStrip(all, "0")
        decpt == Len(all) - sh.s
        ex    == decpt - 1
        exds  == BDecimal(BFromInt(IF ex < 0 THEN -ex ELSE ex))
    IN  IF decpt > 16 \/ decpt < -3
        THEN <<ds[1]>> \o (IF Len(ds) > 1 THEN <<".">> \o Tail(ds) ELSE <<>>)
             \o <<"e", IF ex < 0 THEN "-" ELSE "+">>
             \o (IF Len(exds) < 2 THEN <<"0">> \o exds ELSE exds)
        ELSE IF decpt <= 0 THEN <<"0", ".">> \o Repeat("0", -decpt) \o ds
        ELSE IF decpt >= Len(ds) THEN ds \o Repeat("0", decpt - Len(ds)) \o <<".", "0">>
        ELSE SubSeq(ds, 1, decpt) \o <<".">> \o SubSeq(ds, decpt + 1, Len(ds))

\* (the exponent and the digits are bound as values, each computed once)
FloatRepr(x) ==
    IF x.m = <<>> THEN <<"0", ".", "0">>
    ELSE CHOOSE r \in {ReprLayout(sh) : sh \in {Shortest(x, p) : p \in {Exp10(x)}}} : TRUE

(***************************************************************************)
(* Recipes (src/tools/recipe.py).  An Optional[str] field that is None     *)
(* holds the value None below, which no str equals.                        *)
(***************************************************************************)
None == <<"None">>

Ingredient(food, quantity, measure, foodCategory) ==
    [food |-> food, quantity |-> quantity, measure |-> measure,
     foodCategory |-> foodCategory]

Recipe(servings, ingredients) == [servings |-> servings, ingredients |-> ingredients]

(***************************************************************************)
(* The value of a quantity: a float, or the str the ingredient came with.  *)
(***************************************************************************)
NumQ(x) == [num |-> TRUE, f |-> x, s |-> <<>>]
StrQ(s) == [num |-> FALSE, f |-> FZero, s |-> s]

\* str(quantity), as the f-string of add_recipe and get_consolidated_list take it
QuantityStr(q) == IF q.num THEN FloatRepr(q.f) ELSE q.s

(***************************************************************************)
(* calculate_optimal_servings_distribution(recipes, total_servings_needed) *)
(* The result is [raised, ret]: raised names the exception that left the   *)
(* function ("none" when it returned), ret is the list returned.           *)
(***************************************************************************)
\* sum(s * m for s, m in zip(base_servings, initial_multipliers)) over the
\* first n recipes; sum starts from the int 0
RECURSIVE TotalServings(_, _, _)
TotalServings(base_servings, multipliers, n) ==
    IF n = 0 THEN FZero
    ELSE FAdd(TotalServings(base_servings, multipliers, n - 1),
              FMul(IntToFloat(base_servings[n]), multipliers[n]))

\* the distributor with the test of line 23 dropped: it always scales
distribution_always_scaled(recipes, total_servings_needed) ==
    LET base_servings       == [i \in 1..Len(recipes) |-> recipes[i].servings]
        initial_multipliers == [i \in 1..Len(recipes) |-> FOne]
        total_servings      == TotalServings(base_servings, initial_multipliers, Len(recipes))
        needed              == IntToFloat(total_servings_needed)
    IN  IF total_servings = FZero
        THEN [raised |-> "ZeroDivisionError", ret |-> <<>>]
        ELSE LET scale_factor == FDiv(needed, total_servings)
             IN  [raised |-> "none",
                  ret |-> [i \in 1..Len(recipes) |->
                              FMul(initial_multipliers[i], scale_factor)]]

\* the distributor scaling the first recipe only
distribution_first_scaled(recipes, total_servings_needed) ==
    LET base_servings       == [i \in 1..Len(recipes) |-> recipes[i].servings]
        initial_multipliers == [i \in 1..Len(recipes) |-> FOne]
        total_servings      == TotalServings(base_servings, initial_multipliers, Len(recipes))
        needed              == IntToFloat(total_servings_needed)
    IN  IF FLess(total_servings, needed)
        THEN IF total_servings = FZero
             THEN [raised |-> "ZeroDivisionError", ret |-> <<>>]
             ELSE LET scale_factor == FDiv(needed, total_servings)
                  IN  [raised |-> "none",
                       ret |-> [i \in 1..Len(recipes) |->
                                   IF i = 1 THEN FMul(initial_multipliers[i], scale_factor)
                                   ELSE initial_multipliers[i]]]
        ELSE [raised |-> "none", ret |-> initial_multipliers]

\* the distributor never scaling
distribution_never_scaled(recipes, total_servings_needed) ==
    [raised |-> "none", ret |-> [i \in 1..Len(recipes) |-> FOne]]

calculate_optimal_servings_distribution(recipes, total_servings_needed) ==
    LET base_servings       == [i \in 1..Len(recipes) |-> recipes[i].servings]
        initial_multipliers == [i \in 1..Len(recipes) |-> FOne]
        total_servings      == TotalServings(base_servings, initial_multipliers, Len(recipes))
        needed              == IntToFloat(total_servings_needed)
    IN  IF FLess(total_servings, needed)
        THEN IF total_servings = FZero
             THEN [raised |-> "ZeroDivisionError", ret |-> <<>>]
             ELSE LET scale_factor == FDiv(needed, total_servings)
                  IN  [raised |-> "none",
                       ret |-> [i \in 1..Len(recipes) |->
                                   FMul(initial_multipliers[i], scale_factor)]]
        ELSE [raised |-> "none", ret |-> initial_multipliers]

(***************************************************************************)
(* class ShoppingList.  self.items is a dict, which keeps insertion order: *)
(* a sequence of entries [key, food, quantity, measure, category] with     *)
(* pairwise different keys.                                                *)
(***************************************************************************)
\* the food as the ingredient spells it, not lowercased
IngredientFoodAsGiven(ingredient) == ingredient.food

\* food = ingredient.food.lower()
IngredientFood(ingredient) == Lower(ingredient.food)

\* a quantity that is no number counted as the number 0
ScaledQuantityZeroed(ingredient, servings_multiplier) ==
    LET parsed == ParseFloat(ingredient.quantity)
    IN  IF parsed.ok THEN NumQ(FMul(parsed.val, servings_multiplier))
        ELSE NumQ(FZero)

\* try: float(ingredient.quantity) * servings_multiplier
\* except (ValueError, TypeError): ingredient.quantity
ScaledQuantity(ingredient, servings_multiplier) ==
    LET parsed == ParseFloat(ingredient.quantity)
    IN  IF parsed.ok THEN NumQ(FMul(parsed.val, servings_multiplier))
        ELSE StrQ(ingredient.quantity)

\* the measure as the ingredient has it, with no default
IngredientMeasureAsGiven(ingredient) == ingredient.measure

\* measure = ingredient.measure or "unit"
IngredientMeasure(ingredient) ==
    IF ingredient.measure = None \/ ingredient.measure = <<>>
    THEN <<"u", "n", "i", "t">> ELSE ingredient.measure

\* category = ingredient.foodCategory or "Other"
IngredientCategory(ingredient) ==
    IF ingredient.foodCategory = None \/ ingredient.foodCategory = <<>>
    THEN <<"O", "t", "h", "e", "r">> ELSE ingredient.foodCategory

\* a key that leaves the measure out
IngredientKeyByFood(ingredient) == <<IngredientFood(ingredient), <<>>>>

\* key = (food, measure)
IngredientKey(ingredient) == <<IngredientFood(ingredient), IngredientMeasure(ingredient)>>

\* a merge that keeps the new quantity only
MergeQuantityOverwriting(existing, quantity) == quantity

\* a merge whose note names the new quantity before the existing one
MergeQuantityNewFirst(existing, quantity) ==
    IF existing.num /\ quantity.num THEN NumQ(FAdd(existing.f, quantity.f))
    ELSE StrQ(QuantityStr(quantity) \o <<" ", "+", " ">> \o QuantityStr(existing))

\* the quantity of an entry already in self.items after one more contribution
MergeQuantity(existing, quantity) ==
    IF existing.num /\ quantity.num THEN NumQ(FAdd(existing.f, quantity.f))
    ELSE StrQ(QuantityStr(existing) \o <<" ", "+", " ">> \o QuantityStr(quantity))

\* a loop body whose merge also takes the category of the new contribution
AddIngredientLastWins(its, ingredient, servings_multiplier) ==
    LET food     == IngredientFood(ingredient)
        quantity == ScaledQuantity(ingredient, servings_multiplier)
        measure  == IngredientMeasure(ingredient)
        category == IngredientCategory(ingredient)
        key      == IngredientKey(ingredient)
    IN  IF \E i \in 1..Len(its) : its[i].key = key
        THEN [i \in 1..Len(its) |->
                 IF its[i].key = key
                 THEN [its[i] EXCEPT !.quantity = MergeQuantity(its[i].quantity, quantity),
                                     !.category = category]
                 ELSE its[i]]
        ELSE Append(its, [key |-> key, food |-> food, quantity |-> quantity,
                          measure |-> measure, category |-> category])

\* the body of add_recipe's loop for one ingredient
AddIngredient(its, ingredient, servings_multiplier) ==
    LET food     == IngredientFood(ingredient)
        quantity == ScaledQuantity(ingredient, servings_multiplier)
        measure  == IngredientMeasure(ingredient)
        category == IngredientCategory(ingredient)
        key      == IngredientKey(ingredient)
    IN  IF \E i \in 1..Len(its) : its[i].key = key
        THEN [i \in 1..Len(its) |->
                 IF its[i].key = key
                 THEN [its[i] EXCEPT !.quantity = MergeQuantity(its[i].quantity, quantity)]
                 ELSE its[i]]
        ELSE Append(its, [key |-> key, food |-> food, quantity |-> quantity,
                          measure |-> measure, category |-> category])

\* self.items after the first n ingredients of the recipe were added
RECURSIVE AddIngredients(_, _, _, _)
AddIngredients(its, ingredients, servings_multiplier, n) ==
    IF n = 0 THEN its
    ELSE AddIngredient(AddIngredients(its, ingredients, servings_multiplier, n - 1),
                       ingredients[n], servings_multiplier)

\* add_recipe(recipe, servings_multiplier): self.items afterwards
add_recipe(its, recipe, servings_multiplier) ==
    AddIngredients(its, recipe.ingredients, servings_multiplier, Len(recipe.ingredients))

\* a clear that leaves self.items as it is
clear_nothing(its) == its

\* clear(): self.items afterwards
clear(its) == <<>>

\* one dict of the list get_consolidated_list returns
DisplayItem(item_data) ==
    [food     |-> Title(item_data.food),
     quantity |-> IF item_data.quantity.num
                  THEN RStrip(RStrip(Format2f(item_data.quantity.f), "0"), ".")
                  ELSE item_data.quantity.s,
     measure  |-> item_data.measure,
     category |-> item_data.category]

\* a sort key that leaves the category out
SortKeyLessByFood(x, y) == StrLess(x.food, y.food)

\* (x["category"], x["food"]) < (y["category"], y["food"])
SortKeyLess(x, y) ==
    \/ StrLess(x.category, y.category)
    \/ x.category = y.category /\ StrLess(x.food, y.food)

\* sorted(l, key=...): stable, so equal keys keep their order
Sorted(l) ==
    LET before(i, j) == SortKeyLess(l[i], l[j]) \/ (~SortKeyLess(l[j], l[i]) /\ i < j)
        rank(i)      == Cardinality({j \in 1..Len(l) : before(j, i)}) + 1
    IN  [k \in 1..Len(l) |-> l[CHOOSE i \in 1..Len(l) : rank(i) = k]]

\* a read that stores the title-cased food back into self.items
get_consolidated_list_in_place(its) ==
    [items |-> [i \in 1..Len(its) |-> [its[i] EXCEPT !.food = Title(its[i].food)]],
     ret   |-> Sorted([i \in 1..Len(its) |-> DisplayItem(its[i])])]

\* get_consolidated_list(): [items, ret], self.items afterwards and the list returned
get_consolidated_list(its) ==
    [items |-> its,
     ret   |-> Sorted([i \in 1..Len(its) |-> DisplayItem(its[i])])]

(***************************************************************************)
(* MealPlannerAgent._generate_shopping_list(recipes), given the agent's    *)
(* user_preferences: [items, raised, ret], self.shopping_list.items        *)
(* afterwards, the exception that left the method ("none" when it          *)
(* returned) and the list returned.  The method has no await in it, so it  *)
(* runs as one step.                                                       *)
(***************************************************************************)
\* self.shopping_list.items after the first n recipes were added
RECURSIVE AddRecipes(_, _, _, _)
AddRecipes(its, recipes, multipliers, n) ==
    IF n = 0 THEN its
    ELSE add_recipe(AddRecipes(its, recipes, multipliers, n - 1), recipes[n], multipliers[n])

\* return self.shopping_list.get_consolidated_list()
ListAfterAdding(filled) ==
    [items |-> get_consolidated_list(filled).items, raised |-> "none",
     ret   |-> get_consolidated_list(filled).ret]

\* _generate_shopping_list without the clear() of line 462
generate_shopping_list_unclear(its, recipes, cooking_days, servings_per_meal) ==
    LET total_servings_needed == cooking_days * servings_per_meal
    IN  CHOOSE out \in
            {IF dist.raised # "none"
             THEN [items |-> its, raised |-> dist.raised, ret |-> <<>>]
             ELSE ListAfterAdding(AddRecipes(its, recipes, dist.ret, Len(recipes)))
             : dist \in {calculate_optimal_servings_distribution(
                             recipes, total_servings_needed)}} : TRUE

\* (the multipliers are bound as a value, computed once)
generate_shopping_list(its, recipes, cooking_days, servings_per_meal) ==
    LET total_servings_needed == cooking_days * servings_per_meal
    IN  CHOOSE out \in
            {IF dist.raised # "none"
             THEN [items |-> clear(its), raised |-> dist.raised, ret |-> <<>>]
             ELSE ListAfterAdding(AddRecipes(clear(its), recipes, dist.ret, Len(recipes)))
             : dist \in {calculate_optimal_servings_distribution(
                             recipes, total_servings_needed)}} : TRUE

(***************************************************************************)
(* Bounds and the inputs drawn within them.                                *)
(***************************************************************************)
\* add_recipe calls on one ShoppingList between two clears
MaxAdds == 2
\* len(user_preferences.cooking_days), user_preferences.servings_per_meal
\* and the runs of one agent
MaxCookingDays == 2
MaxServingsPerMeal == 2
MaxRuns == 2
\* the recipes, servings per recipe and target handed to the distributor alone
MaxRecipes == 2
MaxServings == 6
MaxTarget == 20
\* the websocket connections accepted by one server process
MaxConnections == 2
\* the replies read by one call of _get_recipe_selections, and the chat
\* turns of one call of _collect_user_preferences
MaxTurns == 3

Flour == <<"f", "l", "o", "u", "r">>
Salt == <<"s", "a", "l", "t">>
Cup == <<"c", "u", "p">>

Ingredients ==
    [flourCup   |-> Ingredient(<<"F", "l", "o", "u", "r">>, <<"2">>, Cup,
                               <<"B", "a", "k", "i", "n", "g">>),
     flourCup2  |-> Ingredient(Flour, <<"1">>, <<"C", "u", "p">>,
                               <<"G", "r", "a", "i", "n", "s">>),
     flourHalf  |-> Ingredient(<<"F", "L", "O", "U", "R">>, <<"0", ".", "5">>, Cup, None),
     flourGram  |-> Ingredient(Flour, <<"5", "0", "0">>, <<"g">>,
                               <<"B", "a", "k", "i", "n", "g">>),
     saltTaste  |-> Ingredient(Salt, <<"t", "o", " ", "t", "a", "s", "t", "e">>, None, <<>>),
     saltUnit   |-> Ingredient(<<"S", "a", "l", "t">>, <<"1">>, <<"u", "n", "i", "t">>,
                               <<"S", "p", "i", "c", "e", "s">>),
     saltTwo    |-> Ingredient(<<"S", "A", "L", "T">>, <<"2">>, <<>>,
                               <<"P", "a", "n", "t", "r", "y">>),
     oil        |-> Ingredient(<<"o", "l", "i", "v", "e", " ", "o", "i", "l">>,
                               <<"0", ".", "1">>, <<>>, <<"O", "i", "l", "s">>),
     milk       |-> Ingredient(<<"M", "i", "l", "k">>, <<"2", ".", "5">>, Cup,
                               <<"D", "a", "i", "r", "y">>)]

Cookbook ==
    [bread    |-> Recipe(4, <<Ingredients.flourCup, Ingredients.saltTaste>>),
     flatcake |-> Recipe(6, <<Ingredients.flourCup2, Ingredients.saltUnit,
                              Ingredients.saltTwo>>),
     focaccia |-> Recipe(2, <<Ingredients.flourHalf, Ingredients.flourGram,
                              Ingredients.oil>>),
     pancakes |-> Recipe(3, <<Ingredients.milk, Ingredients.flourHalf,
                              Ingredients.flourCup>>),
     dressing |-> Recipe(0, <<Ingredients.oil, Ingredients.saltUnit>>)]

\* The recipes add_recipe is called with directly.
Recipes == {Cookbook.bread, Cookbook.flatcake, Cookbook.focaccia, Cookbook.pancakes}

\* The values of servings_multiplier add_recipe is called with directly.
Multipliers == {FOne, FDiv(IntToFloat(10), IntToFloat(3))}

\* The recipes a search found, as _get_recipe_selections displays them.
Found == <<Cookbook.bread, Cookbook.focaccia, Cookbook.dressing>>

WeekDays ==
    <<"Monday", "Tuesday", "Wednesday", "Thursday", "Friday", "Saturday", "Sunday">>

\* the sequences over S of length at most n
SeqsUpTo(S, n) == UNION {[1..k -> S] : k \in 0..n}

\* the lists of n different indices of a list of length len
Selections(len, n) ==
    {s \in [1..n -> 1..len] : \A i, j \in 1..n : i # j => s[i] # s[j]}

(***************************************************************************)
(* State.  items is self.items of one ShoppingList.  last records the most *)
(* recent call on it: its name, the name of the call before it, the        *)
(* servings of the recipes and the target _generate_shopping_list was      *)
(* given, the exception raised and the value returned.  log lists the      *)
(* contributions [ingredient, multiplier] made since items was last        *)
(* emptied, adds counts the add_recipe calls since then, and cleared tells *)
(* whether a non-empty items was ever emptied.                             *)
(* pc, user_preferences, selected_recipes and runs belong to the           *)
(* MealPlannerAgent that owns the ShoppingList: the step of run() it is    *)
(* at, what it collected and selected, and the runs it finished.           *)
(* dRecipes, dTarget and dOut are the arguments and the result of a call   *)
(* of the distributor alone.                                               *)
(* handlers, heap, connections and agents belong to src/app.py: the        *)
(* websocket_endpoint coroutine of each connection, the ShoppingList       *)
(* objects constructed so far (a reference to one is its place in heap),   *)
(* and the two module-level dicts.                                         *)
(* selection and collecting are the local variables of one call of        *)
(* _get_recipe_selections and of _collect_user_preferences.                *)
(***************************************************************************)
VARIABLES items, last, log, adds, cleared,
          pc, user_preferences, selected_recipes, runs,
          dRecipes, dTarget, dOut,
          handlers, heap, connections, agents,
          selection, collecting

vars == <<items, last, log, adds, cleared,
          pc, user_preferences, selected_recipes, runs,
          dRecipes, dTarget, dOut,
          handlers, heap, connections, agents,
          selection, collecting>>

listVars == <<items, last, log, adds, cleared>>
agentVars == <<pc, user_preferences, selected_recipes, runs>>
distVars == <<dRecipes, dTarget, dOut>>
appVars == <<handlers, heap, connections, agents>>
dialogVars == <<selection, collecting>>

Call(op, after, servings, target, raised, value) ==
    [op |-> op, after |-> after, servings |-> servings, target |-> target,
     raised |-> raised, value |-> value]

NotCalled == [called |-> FALSE, raised |-> "none", ret |-> <<>>]

\* the contributions of a recipe added with a multiplier
Contributions(recipe, servings_multiplier) ==
    [i \in 1..Len(recipe.ingredients) |->
        [ingredient |-> recipe.ingredients[i], multiplier |-> servings_multiplier]]

RECURSIVE AllContributions(_, _, _)
AllContributions(recipes, multipliers, n) ==
    IF n = 0 THEN <<>>
    ELSE AllContributions(recipes, multipliers, n - 1)
         \o Contributions(recipes[n], multipliers[n])

(***************************************************************************)
(* src/app.py.  A connection is known by its number, which also stands for *)
(* its WebSocket object; its agent is held by its handler.  The dicts      *)
(* connections and agents map a client_id to the number of the connection  *)
(* whose websocket or agent they hold, 0 when the client_id is no key.     *)
(***************************************************************************)
Connections == 1..MaxConnections

\* the client_id of the path /ws/{client_id}
ClientIds == {"kitchen", "office"}

\* a ShoppingList shared by all agents: the constructor hands out the first
\* one made
ShoppingListShared(hp) ==
    IF hp = <<>> THEN [heap |-> <<<<>>>>, ref |-> 1] ELSE [heap |-> hp, ref |-> 1]

\* ShoppingList(): a new object whose items is {}
ShoppingList(hp) == [heap |-> Append(hp, <<>>), ref |-> Len(hp) + 1]

\* MealPlannerAgent(): self.shopping_list = ShoppingList(),
\* self.user_preferences = None
MealPlannerAgent(hp) ==
    [heap  |-> ShoppingList(hp).heap,
     agent |-> [shopping_list |-> ShoppingList(hp).ref, user_preferences |-> None]]

\* async with MealPlannerAgent() as agent: the agent that is bound.  The
\* class of src/agent.py defines no __aenter__; entering is taken to return
\* the agent itself and leaving to do nothing.
aenter(agent) == agent

NoAgent == [shopping_list |-> 0, user_preferences |-> None]

\* a websocket_endpoint coroutine: where it is, its client_id, its agent,
\* the recipes its planning task selected, the list the task was returned,
\* and the connection on whose websocket the task reported an error
Handler(at, client_id, agent, recipes, shown, error_on) ==
    [pc |-> at, client_id |-> client_id, agent |-> agent,
     selected_recipes |-> recipes, shown |-> shown, error_on |-> error_on]

NotConnected == Handler("free", "", NoAgent, <<>>, <<>>, 0)
Returned == Handler("closed", "", NoAgent, <<>>, <<>>, 0)

\* The preferences a planning session collects.
SessionPreferences ==
    {[cooking_days |-> SubSeq(WeekDays, 1, 1), servings_per_meal |-> 2],
     [cooking_days |-> SubSeq(WeekDays, 1, 2), servings_per_meal |-> 1]}

\* The recipes a planning session selects for n cooking days: none when the
\* search found nothing, else n of the recipes found.
SessionSelections(n) ==
    {<<>>, SubSeq(Found, 1, n), SubSeq(Found, Len(Found) - n + 1, Len(Found))}

(***************************************************************************)
(* MealPlannerAgent._get_recipe_selections(recipes).  A recipe is known    *)
(* here by its url.  A reply is what the chat completion returned for the  *)
(* user's answer (result, line 359), or the exception raised on the way:   *)
(*   [kind |-> "more", found]     "MORE_RECIPES: <term>", found being what *)
(*                                search_recipes returns for the term;     *)
(*   [kind |-> "array", indices]  a JSON array of integers, taken as a set *)
(*                                ("[]" is the empty one);                 *)
(*   [kind |-> "floats", indices] a JSON array of the same numbers written *)
(*                                as floats ("[1.0, 2.0]"): they compare   *)
(*                                like the integers and pass line 403, but *)
(*                                a list does not take them as an index    *)
(*                                (TypeError at lines 424, 433, 440, 458); *)
(*   [kind |-> "text"]            a text that does not start with "[";     *)
(*   [kind |-> "error"]           an exception inside the try block before *)
(*                                line 417 (the chat call fails, json      *)
(*                                rejects the array).                      *)
(***************************************************************************)
\* The lists a search returns.
SearchResults ==
    {<<>>, <<"r1", "r2", "r3">>, <<"r2", "r4">>, <<"r4", "r5", "r6">>}

\* The replies; an array names integers of 0..4.
SelectionReplies ==
    {[kind |-> "more", found |-> f, indices |-> {}] : f \in SearchResults}
    \cup {[kind |-> k, found |-> <<>>, indices |-> n] :
             k \in {"array", "floats"}, n \in SUBSET (0..4)}
    \cup {[kind |-> k, found |-> <<>>, indices |-> {}] : k \in {"text", "error"}}

NoReply == [kind |-> "none", found |-> <<>>, indices |-> {}]

\* new_recipes = [r for r in new_recipes if r.url not in seen_urls]
FilterSeen(new_recipes, all_recipes) ==
    SelectSeq(new_recipes,
              LAMBDA r : \A i \in 1..Len(all_recipes) : all_recipes[i] # r)

\* the indices of a reply taken as they come, not validated
ValidIndicesUnchecked(new_indices, current_recipes) == new_indices

\* valid_indices = {i for i in new_indices if 1 <= i <= len(current_recipes)}
ValidIndices(new_indices, current_recipes) ==
    {i \in new_indices : 1 <= i /\ i <= Len(current_recipes)}

\* l[k] for a Python list l and an int k: [ok, val], ok = FALSE for IndexError
PyIndex(l, k) ==
    IF 0 <= k /\ k < Len(l) THEN [ok |-> TRUE, val |-> l[k + 1]]
    ELSE IF k < 0 /\ 0 - k <= Len(l) THEN [ok |-> TRUE, val |-> l[Len(l) + k + 1]]
    ELSE [ok |-> FALSE, val |-> ""]

\* the orders in which a set of indices may be iterated
Orders(S) ==
    {o \in [1..Cardinality(S) -> S] : \A i, j \in 1..Cardinality(S) : i # j => o[i] # o[j]}

\* The local variables of a call: where it is ("idle" before the call,
\* "asking" at input(), "returned", "raised"), the argument, the loop
\* variables, the kind of the last assistant message (said) with the number
\* it names as remaining, the last reply, the replies read, the value
\* returned and the exception raised.
SelectionState(at, recipes, needed_recipes, current_recipes, all_recipes, selected_indices, said, remaining, reply, turns, ret, raised) ==
    [pc |-> at, recipes |-> recipes, needed_recipes |-> needed_recipes,
     current_recipes |-> current_recipes, all_recipes |-> all_recipes,
     selected_indices |-> selected_indices, said |-> said, remaining |-> remaining,
     reply |-> reply, turns |-> turns, ret |-> ret, raised |-> raised]

NotSelecting == SelectionState("idle", <<>>, 0, <<>>, <<>>, {}, "", 0, NoReply, 0, <<>>, "none")

\* the loop variables after one pass of the while loop on a reply
\* (lines 321-455)
AfterReply(sel, reply) ==
    IF reply.kind = "error"
    THEN [sel EXCEPT !.said = "error", !.remaining = 0]
    ELSE IF reply.kind = "more"
    THEN LET new_recipes == FilterSeen(reply.found, sel.all_recipes)
         IN  IF new_recipes # <<>>
             THEN [sel EXCEPT !.current_recipes = new_recipes,
                              !.all_recipes = sel.all_recipes \o new_recipes,
                              !.said = "more", !.remaining = 0]
             ELSE [sel EXCEPT !.said = "nothing new", !.remaining = 0]
    ELSE LET new_indices   == IF reply.kind \in {"array", "floats"}
                              THEN reply.indices ELSE {}
             valid_indices == ValidIndices(new_indices, sel.current_recipes)
             count         == Cardinality(valid_indices)
         IN  IF valid_indices = {}
             THEN [sel EXCEPT !.said = "unclear", !.remaining = 0]
             ELSE IF reply.kind = "floats"
             THEN [sel EXCEPT !.selected_indices = valid_indices,
                              !.said = "error", !.remaining = 0]
             ELSE [sel EXCEPT
                      !.selected_indices = valid_indices,
                      !.said = IF count < sel.needed_recipes THEN "remaining"
                               ELSE IF count > sel.needed_recipes THEN "too many"
                               ELSE "perfect",
                      !.remaining = IF count < sel.needed_recipes
                                    THEN sel.needed_recipes - count ELSE 0]

(***************************************************************************)
(* MealPlannerAgent._collect_user_preferences().  A JSON value is given by *)
(* its type and, by type, its number, its text or its elements: an "int"   *)
(* n, a "float" of n halves (0.5 is 1 half, 2.0 is 4), a "str", a "list"   *)
(* of strings, or "missing" for the value of a key an object has not.      *)
(***************************************************************************)
Json(type, number, text, list) ==
    [type |-> type, number |-> number, text |-> text, list |-> list]

JInt(n) == Json("int", n, <<>>, <<>>)
JFloat(halves) == Json("float", halves, <<>>, <<>>)
JStr(s) == Json("str", 0, s, <<>>)
JList(l) == Json("list", 0, <<>>, l)
Missing == Json("missing", 0, <<>>, <<>>)

JsonObject(meal_count, dietary_restrictions, cuisine_preferences, cooking_days, servings_per_meal) ==
    [meal_count |-> meal_count, dietary_restrictions |-> dietary_restrictions,
     cuisine_preferences |-> cuisine_preferences, cooking_days |-> cooking_days,
     servings_per_meal |-> servings_per_meal]

NoObject == JsonObject(Missing, Missing, Missing, Missing, Missing)

\* The objects an extraction may hold, key by key.
MealCounts == {Missing, JInt(0), JInt(2), JFloat(1), JStr(<<"2">>)}

DietaryRestrictions ==
    {Missing, JList(<<>>), JList(<<"vegan">>), JStr(<<"N", "o", "n", "e">>),
     JStr(<<"v", "e", "g", "a", "n">>)}

CuisinePreferences == {Missing, JList(<<"Italian">>)}

CookingDays ==
    {Missing, JStr(<<"M", "o", "n", "d", "a", "y">>)}
    \cup {JList(SubSeq(WeekDays, 1, n)) : n \in 0..MaxCookingDays}

ServingsPerMeal ==
    {Missing, JFloat(1)} \cup {JInt(n) : n \in 0..MaxServingsPerMeal}

(***************************************************************************)
(* An extraction is what the second chat completion (line 115) gives:      *)
(*   kind "raises"     the call raises;                                    *)
(*   kind "no object"  a text in which no "{" comes before the last "}";   *)
(*   kind "malformed"  a text from "{" to "}" that json.loads rejects;     *)
(*   kind "object"     a JSON object.                                      *)
(***************************************************************************)
Extractions ==
    {[kind |-> k, object |-> NoObject] : k \in {"raises", "no object", "malformed"}}
    \cup {[kind |-> "object", object |-> JsonObject(m, d, c, days, s)] :
             m \in MealCounts, d \in DietaryRestrictions, c \in CuisinePreferences,
             days \in CookingDays, s \in ServingsPerMeal}

NoExtraction == [kind |-> "none", object |-> NoObject]

\* MealPlannerAgent._is_preferences_complete(preferences): [raised, ret].
\* x > 0 raises TypeError for a str or a list, len(x) for a number, and
\* preferences[key] raises KeyError; "and" does not evaluate what follows a
\* false operand.
is_preferences_complete(preferences) ==
    LET GreaterThanZero(x) ==
            IF x.type = "missing" THEN [raised |-> "KeyError", ret |-> FALSE]
            ELSE IF x.type \in {"int", "float"}
            THEN [raised |-> "none", ret |-> x.number > 0]
            ELSE [raised |-> "TypeError", ret |-> FALSE]
        LenGreaterThanZero(x) ==
            IF x.type = "missing" THEN [raised |-> "KeyError", ret |-> FALSE]
            ELSE IF x.type = "list" THEN [raised |-> "none", ret |-> Len(x.list) > 0]
            ELSE IF x.type = "str" THEN [raised |-> "none", ret |-> Len(x.text) > 0]
            ELSE [raised |-> "TypeError", ret |-> FALSE]
        m == GreaterThanZero(preferences.meal_count)
        d == LenGreaterThanZero(preferences.cooking_days)
        s == GreaterThanZero(preferences.servings_per_meal)
    IN  IF m.raised # "none" \/ ~m.ret THEN m
        ELSE IF d.raised # "none" \/ ~d.ret THEN d
        ELSE s

\* lines 132-134: a dietary_restrictions of "none" or "no restrictions", in
\* any letter case, becomes []
NoneToEmpty(preferences) ==
    IF /\ preferences.dietary_restrictions.type = "str"
       /\ Lower(preferences.dietary_restrictions.text) \in
             {<<"n", "o", "n", "e">>,
              <<"n", "o", " ", "r", "e", "s", "t", "r", "i", "c", "t", "i", "o", "n", "s">>}
    THEN [preferences EXCEPT !.dietary_restrictions = JList(<<>>)]
    ELSE preferences

\* The try statement of lines 114-148: [raised, found, preferences], found
\* being FALSE when preferences is None after it.  An exception of the
\* extraction call reaches the clause "except json.JSONDecodeError" before
\* the "import json" of line 121 has bound the local name json, and the
\* clause itself raises UnboundLocalError.
ExtractPreferences(extraction) ==
    IF extraction.kind = "raises"
    THEN [raised |-> "UnboundLocalError", found |-> FALSE, preferences |-> NoObject]
    ELSE IF extraction.kind # "object"
    THEN [raised |-> "none", found |-> FALSE, preferences |-> NoObject]
    ELSE IF extraction.object.dietary_restrictions.type = "missing"
    THEN [raised |-> "none", found |-> FALSE, preferences |-> NoObject]
    ELSE LET preferences == NoneToEmpty(extraction.object)
             complete    == is_preferences_complete(preferences)
         IN  IF complete.raised # "none" \/ ~complete.ret
             THEN [raised |-> "none", found |-> FALSE, preferences |-> NoObject]
             ELSE [raised |-> "none", found |-> TRUE, preferences |-> preferences]

NoPreferences ==
    [meal_count |-> 0, dietary_restrictions |-> <<>>, cuisine_preferences |-> <<>>,
     cooking_days |-> <<>>, servings_per_meal |-> 0]

\* tools.user_input.UserPreferences(...): [raised, ret].  A pydantic
\* (version 2) model takes for an int field an int or a float without a
\* fractional part, and for a List[str] field a list.
UserPreferences(meal_count, dietary_restrictions, cuisine_preferences, cooking_days, servings_per_meal) ==
    LET IsIntField(x) == x.type = "int" \/ (x.type = "float" /\ x.number % 2 = 0)
        IntField(x) == IF x.type = "float" THEN x.number \div 2 ELSE x.number
    IN  IF /\ IsIntField(meal_count)
           /\ dietary_restrictions.type = "list"
           /\ cuisine_preferences.type = "list"
           /\ cooking_days.type = "list"
           /\ IsIntField(servings_per_meal)
        THEN [raised |-> "none",
              ret |-> [meal_count           |-> IntField(meal_count),
                       dietary_restrictions |-> dietary_restrictions.list,
                       cuisine_preferences  |-> cuisine_preferences.list,
                       cooking_days         |-> cooking_days.list,
                       servings_per_meal    |-> IntField(servings_per_meal)]]
        ELSE [raised |-> "ValidationError", ret |-> NoPreferences]

\* lines 165-175, after the loop: [raised, ret].  The keys are read in the
\* order of the arguments.
ReturnPreferences(found, preferences) ==
    IF ~found THEN [raised |-> "ValueError", ret |-> NoPreferences]
    ELSE IF \E k \in {"meal_count", "dietary_restrictions", "cuisine_preferences",
                      "cooking_days", "servings_per_meal"} :
               preferences[k].type = "missing"
    THEN [raised |-> "KeyError", ret |-> NoPreferences]
    ELSE UserPreferences(preferences.meal_count, preferences.dietary_restrictions,
                         preferences.cuisine_preferences, preferences.cooking_days,
                         preferences.servings_per_meal)

\* The local variables of a call: where it is ("idle" before the call,
\* "chatting" in the while loop, "returned", "raised"), the user inputs
\* read so far, the extraction, the UserPreferences returned and the
\* exception raised.
NotCollecting ==
    [pc |-> "idle", turns |-> 0, extraction |-> NoExtraction, ret |-> NoPreferences,
     raised |-> "none"]

\* MealPlannerAgent.__init__, ShoppingList.__init__
Init ==
    /\ collecting = NotCollecting
    /\ selection = NotSelecting
    /\ handlers = [c \in Connections |-> NotConnected]
    /\ heap = <<>>
    /\ connections = [id \in ClientIds |-> 0]
    /\ agents = [id \in ClientIds |-> 0]
    /\ items = <<>>
    /\ last = Call("__init__", "", <<>>, 0, "none", <<>>)
    /\ log = <<>>
    /\ adds = 0
    /\ cleared = FALSE
    /\ pc = "idle"
    /\ user_preferences = None
    /\ selected_recipes = <<>>
    /\ runs = 0
    /\ dRecipes = <<>>
    /\ dTarget = 0
    /\ dOut = NotCalled

(***************************************************************************)
(* One ShoppingList under any sequence of calls of its methods.            *)
(***************************************************************************)
AddRecipe(recipe, servings_multiplier) ==
    /\ adds < MaxAdds
    /\ items' = add_recipe(items, recipe, servings_multiplier)
    /\ last' = Call("add_recipe", last.op, <<>>, 0, "none", <<>>)
    /\ log' = log \o Contributions(recipe, servings_multiplier)
    /\ adds' = adds + 1
    /\ UNCHANGED <<cleared, agentVars, distVars, appVars, dialogVars>>

Clear ==
    /\ items' = clear(items)
    /\ last' = Call("clear", last.op, <<>>, 0, "none", <<>>)
    /\ log' = <<>>
    /\ adds' = 0
    /\ cleared' = (cleared \/ items # <<>>)
    /\ UNCHANGED <<agentVars, distVars, appVars, dialogVars>>

GetConsolidatedList ==
    LET got == get_consolidated_list(items)
    IN  /\ items' = got.items
        /\ last' = Call("get_consolidated_list", last.op, <<>>, 0, "none", got.ret)
        /\ UNCHANGED <<log, adds, cleared, agentVars, distVars, appVars, dialogVars>>

Next ==
    \/ \E recipe \in Recipes, m \in Multipliers : AddRecipe(recipe, m)
    \/ Clear
    \/ GetConsolidatedList

Spec == Init /\ [][Next]_vars

(***************************************************************************)
(* MealPlannerAgent.run, step by step: the preferences are collected, the  *)
(* recipes are selected, the shopping list is generated.                   *)
(***************************************************************************)
\* self.user_preferences = await self._collect_user_preferences()
CollectUserPreferences(days, servings_per_meal) ==
    /\ pc = "idle"
    /\ runs < MaxRuns
    /\ user_preferences' = [cooking_days      |-> SubSeq(WeekDays, 1, days),
                            servings_per_meal |-> servings_per_meal]
    /\ pc' = "collected"
    /\ UNCHANGED <<selected_recipes, runs, listVars, distVars, appVars, dialogVars>>

\* selected_recipes = await self._get_recipe_selections(recipes): [] when the
\* search found nothing, else len(cooking_days) different recipes of the list
GetRecipeSelections(recipes) ==
    /\ pc = "collected"
    /\ selected_recipes' = recipes
    /\ pc' = "selected"
    /\ UNCHANGED <<user_preferences, runs, listVars, distVars, appVars, dialogVars>>

\* shopping_list = await self._generate_shopping_list(selected_recipes)
GenerateShoppingList ==
    /\ pc = "selected"
    /\ \E cooking_days \in {Len(user_preferences.cooking_days)},
          servings_per_meal \in {user_preferences.servings_per_meal} :
          \E got \in {generate_shopping_list(items, selected_recipes, cooking_days,
                                             servings_per_meal)},
             dist \in {calculate_optimal_servings_distribution(
                           selected_recipes, cooking_days * servings_per_meal)} :
             /\ items' = got.items
             /\ last' = Call("_generate_shopping_list", last.op,
                             [i \in 1..Len(selected_recipes) |->
                                 selected_recipes[i].servings],
                             cooking_days * servings_per_meal, got.raised, got.ret)
             /\ log' = IF got.raised = "none"
                       THEN AllContributions(selected_recipes, dist.ret,
                                             Len(selected_recipes))
                       ELSE <<>>
             /\ adds' = IF got.raised = "none" THEN Len(selected_recipes) ELSE 0
    /\ cleared' = (cleared \/ items # <<>>)
    /\ pc' = "idle"
    /\ runs' = runs + 1
    /\ UNCHANGED <<user_preferences, selected_recipes, distVars, appVars, dialogVars>>

NextAgent ==
    \/ \E days \in 1..MaxCookingDays, servings_per_meal \in 1..MaxServingsPerMeal :
          CollectUserPreferences(days, servings_per_meal)
    \/ GetRecipeSelections(<<>>)
    \/ /\ pc = "collected"
       /\ \E s \in Selections(Len(Found), Len(user_preferences.cooking_days)) :
             GetRecipeSelections([i \in 1..Len(s) |-> Found[s[i]]])
    \/ GenerateShoppingList

SpecAgent == Init /\ [][NextAgent]_vars

(***************************************************************************)
(* The distributor alone: the arguments are drawn at the start, one step   *)
(* applies calculate_optimal_servings_distribution to them.                *)
(***************************************************************************)
InitDist ==
    /\ selection = NotSelecting
    /\ collecting = NotCollecting
    /\ handlers = [c \in Connections |-> NotConnected]
    /\ heap = <<>>
    /\ connections = [id \in ClientIds |-> 0]
    /\ agents = [id \in ClientIds |-> 0]
    /\ items = <<>>
    /\ last = Call("__init__", "", <<>>, 0, "none", <<>>)
    /\ log = <<>>
    /\ adds = 0
    /\ cleared = FALSE
    /\ pc = "idle"
    /\ user_preferences = None
    /\ selected_recipes = <<>>
    /\ runs = 0
    /\ dRecipes \in SeqsUpTo({Recipe(n, <<>>) : n \in 0..MaxServings}, MaxRecipes)
    /\ dTarget \in 1..MaxTarget
    /\ dOut = NotCalled

Distribute ==
    /\ ~dOut.called
    /\ dOut' = LET d == calculate_optimal_servings_distribution(dRecipes, dTarget)
               IN  [called |-> TRUE, raised |-> d.raised, ret |-> d.ret]
    /\ UNCHANGED <<dRecipes, dTarget, listVars, agentVars, appVars, dialogVars>>

NextDist == Distribute

SpecDist == InitDist /\ [][NextDist]_vars

(***************************************************************************)
(* The server of src/app.py: connections are accepted, each handler        *)
(* registers its websocket and a new agent and starts the planning task    *)
(* (MealPlannerAgent.run), the tasks advance from one await to the next in *)
(* any interleaving, and a connection may be closed at any time.           *)
(***************************************************************************)
\* websocket_endpoint from the accept to the first receive_text()
Connect(c, client_id) ==
    /\ handlers[c].pc = "free"
    /\ \A d \in Connections : d < c => handlers[d].pc # "free"
    /\ \E made \in {MealPlannerAgent(heap)} :
          /\ heap' = made.heap
          /\ handlers' = [handlers EXCEPT
                 ![c] = Handler("collecting", client_id, aenter(made.agent), <<>>, <<>>, 0)]
    /\ connections' = [connections EXCEPT ![client_id] = c]
    /\ agents' = [agents EXCEPT ![client_id] = c]
    /\ UNCHANGED <<listVars, agentVars, distVars, dialogVars>>

\* the planning task: self.user_preferences = await self._collect_user_preferences()
SessionCollect(c, preferences) ==
    /\ handlers[c].pc = "collecting"
    /\ handlers' = [handlers EXCEPT ![c].pc = "selecting",
                                    ![c].agent.user_preferences = preferences]
    /\ UNCHANGED <<heap, connections, agents, listVars, agentVars, distVars, dialogVars>>

\* the planning task: selected_recipes = await self._get_recipe_selections(recipes)
SessionSelect(c, recipes) ==
    /\ handlers[c].pc = "selecting"
    /\ handlers' = [handlers EXCEPT ![c].pc = "generating",
                                    ![c].selected_recipes = recipes]
    /\ UNCHANGED <<heap, connections, agents, listVars, agentVars, distVars, dialogVars>>

\* the planning task: _generate_shopping_list on the agent's own
\* ShoppingList; when it raises, handle_planning_session reports the error
\* on connections[client_id], if the client_id is a key
SessionGenerate(c) ==
    /\ handlers[c].pc = "generating"
    /\ \E ref \in {handlers[c].agent.shopping_list} :
       \E got \in {generate_shopping_list(
                       heap[ref], handlers[c].selected_recipes,
                       Len(handlers[c].agent.user_preferences.cooking_days),
                       handlers[c].agent.user_preferences.servings_per_meal)} :
          /\ heap' = [heap EXCEPT ![ref] = got.items]
          /\ handlers' = [handlers EXCEPT
                 ![c].pc = IF got.raised = "none" THEN "presented" ELSE "failed",
                 ![c].shown = got.ret,
                 ![c].error_on = IF got.raised = "none" THEN 0
                                 ELSE connections[handlers[c].client_id]]
    /\ UNCHANGED <<connections, agents, listVars, agentVars, distVars, dialogVars>>

\* WebSocketDisconnect: the planning task is cancelled, and the finally
\* block deletes connections[client_id] and agents[client_id] when the
\* client_id is a key; the agent and its ShoppingList are dropped
Disconnect(c) ==
    /\ handlers[c].pc \notin {"free", "closed"}
    /\ connections' = [connections EXCEPT ![handlers[c].client_id] = 0]
    /\ agents' = [agents EXCEPT ![handlers[c].client_id] = 0]
    /\ heap' = [heap EXCEPT ![handlers[c].agent.shopping_list] = <<>>]
    /\ handlers' = [handlers EXCEPT ![c] = Returned]
    /\ UNCHANGED <<listVars, agentVars, distVars, dialogVars>>

NextSessions ==
    \/ \E c \in Connections, client_id \in ClientIds : Connect(c, client_id)
    \/ \E c \in Connections, preferences \in SessionPreferences :
          SessionCollect(c, preferences)
    \/ \E c \in Connections :
          /\ handlers[c].pc = "selecting"
          /\ \E recipes \in SessionSelections(
                                Len(handlers[c].agent.user_preferences.cooking_days)) :
                SessionSelect(c, recipes)
    \/ \E c \in Connections : SessionGenerate(c)
    \/ \E c \in Connections : Disconnect(c)

SpecSessions == Init /\ [][NextSessions]_vars

(***************************************************************************)
(* One call of _get_recipe_selections: the call, then one pass of the      *)
(* while loop for each reply, until the loop is left.                      *)
(***************************************************************************)
\* lines 257-316: [] at once when recipes is empty, else the loop is entered
\* (_is_preferences_complete has seen to it that there is a cooking day)
SelectionCall(recipes, cooking_days) ==
    /\ selection.pc = "idle"
    /\ selection' =
          IF recipes = <<>>
          THEN SelectionState("returned", recipes, 0, <<>>, <<>>, {}, "", 0, NoReply, 0,
                              <<>>, "none")
          ELSE SelectionState("asking", recipes, cooking_days, recipes, recipes, {},
                              "which", 0, NoReply, 0, <<>>, "none")
    /\ UNCHANGED <<collecting, listVars, agentVars, distVars, appVars>>

\* one pass of the loop; when it leaves selected_indices with
\* needed_recipes elements the loop ends and line 458 returns
\* [current_recipes[i-1] for i in selected_indices], in the order the set
\* is iterated
SelectionReply(reply) ==
    /\ selection.pc = "asking"
    /\ selection.turns < MaxTurns
    /\ \E sel \in {AfterReply(selection, reply)} :
          IF Cardinality(sel.selected_indices) # sel.needed_recipes
          THEN selection' = [sel EXCEPT !.reply = reply, !.turns = selection.turns + 1]
          ELSE \E order \in Orders(sel.selected_indices) :
                  \E picked \in {[i \in 1..Len(order) |->
                                     PyIndex(sel.current_recipes, order[i] - 1)]} :
                     selection' =
                       IF reply.kind = "floats"
                       THEN [sel EXCEPT !.reply = reply, !.turns = selection.turns + 1,
                                        !.pc = "raised", !.raised = "TypeError"]
                       ELSE IF \E i \in 1..Len(picked) : ~picked[i].ok
                       THEN [sel EXCEPT !.reply = reply, !.turns = selection.turns + 1,
                                        !.pc = "raised", !.raised = "IndexError"]
                       ELSE [sel EXCEPT !.reply = reply, !.turns = selection.turns + 1,
                                        !.pc = "returned",
                                        !.ret = [i \in 1..Len(picked) |-> picked[i].val]]
    /\ UNCHANGED <<collecting, listVars, agentVars, distVars, appVars>>

NextSelect ==
    \/ \E recipes \in SearchResults, cooking_days \in 1..MaxCookingDays :
          SelectionCall(recipes, cooking_days)
    \/ \E reply \in SelectionReplies : SelectionReply(reply)

SpecSelect == Init /\ [][NextSelect]_vars

(***************************************************************************)
(* One call of _collect_user_preferences: the call, then one pass of the   *)
(* while loop for each chat completion.                                    *)
(***************************************************************************)
CollectCall ==
    /\ collecting.pc = "idle"
    /\ collecting' = [collecting EXCEPT !.pc = "chatting"]
    /\ UNCHANGED <<selection, listVars, agentVars, distVars, appVars>>

\* a pass whose assistant message does not hold "search for recipes": the
\* user's answer is read and the loop goes on (lines 72-163)
ChatTurn ==
    /\ collecting.pc = "chatting"
    /\ collecting.turns < MaxTurns
    /\ collecting' = [collecting EXCEPT !.turns = collecting.turns + 1]
    /\ UNCHANGED <<selection, listVars, agentVars, distVars, appVars>>

\* the pass of the transition message: the preferences are extracted, the
\* loop is left by the break of line 149, and lines 165-175 end the call
ExtractAndReturn(extraction) ==
    /\ collecting.pc = "chatting"
    /\ \E got \in {ExtractPreferences(extraction)} :
          \E end \in {IF got.raised # "none"
                      THEN [raised |-> got.raised, ret |-> NoPreferences]
                      ELSE ReturnPreferences(got.found, got.preferences)} :
             collecting' = [collecting EXCEPT
                              !.pc = IF end.raised = "none" THEN "returned" ELSE "raised",
                              !.extraction = extraction,
                              !.ret = end.ret,
                              !.raised = end.raised]
    /\ UNCHANGED <<selection, listVars, agentVars, distVars, appVars>>

NextCollect ==
    \/ CollectCall
    \/ ChatTurn
    \/ \E extraction \in Extractions : ExtractAndReturn(extraction)

SpecCollect == Init /\ [][NextCollect]_vars

(***************************************************************************)
(* Properties of the ShoppingList.  A (food, unit) key is, as in            *)
(* add_recipe, the lowercased food with the measure as it is spelled,      *)
(* "unit" standing in for a missing one; it is restated here from the      *)
(* ingredient alone.  (C9 is about units that differ in letter case.)      *)
(***************************************************************************)
FoodUnit(ingredient) ==
    <<Lower(ingredient.food),
      IF ingredient.measure = None \/ ingredient.measure = <<>>
      THEN <<"u", "n", "i", "t">> ELSE ingredient.measure>>

\* the contributions of the log, in arrival order, that fall under a key
ContributionsTo(key) == SelectSeq(log, LAMBDA c : FoodUnit(c.ingredient) = key)

LoggedKeys == {FoodUnit(log[i].ingredient) : i \in 1..Len(log)}

IsNumeric(c) == ParseFloat(c.ingredient.quantity).ok

AllNumeric(cs) == \A i \in 1..Len(cs) : IsNumeric(cs[i])

\* parsed quantity * servings_multiplier of one contribution
Term(c) == FMul(ParseFloat(c.ingredient.quantity).val, c.multiplier)

\* the float sum of the first n terms (n >= 1), added in arrival order
RECURSIVE SumOfTerms(_, _)
SumOfTerms(cs, n) ==
    IF n = 1 THEN Term(cs[1]) ELSE FAdd(SumOfTerms(cs, n - 1), Term(cs[n]))

ItemsUnder(key) == {i \in 1..Len(items) : <<items[i].food, items[i].measure>> = key}

\* self.items as the contributions of the log alone build it, from nothing
RECURSIVE Replay(_, _)
Replay(lg, n) ==
    IF n = 0 THEN <<>>
    ELSE AddIngredient(Replay(lg, n - 1), lg[n].ingredient, lg[n].multiplier)

\* C1: after any sequence of add_recipe calls, every key contributed has an
\* entry, and when all the contributions to a key are numeric the quantity
\* stored under it is the sum, in float arithmetic and in arrival order, of
\* parsed quantity * servings_multiplier over these contributions.
C1_AdditiveConsolidation ==
    \A key \in LoggedKeys :
        LET cs == ContributionsTo(key)
        IN  /\ ItemsUnder(key) # {}
            /\ AllNumeric(cs) =>
                  \A i \in ItemsUnder(key) :
                      items[i].quantity = NumQ(SumOfTerms(cs, Len(cs)))

\* three numeric contributions under one key, not all with multiplier 1
C1_Witness ==
    \E key \in LoggedKeys :
        LET cs == ContributionsTo(key)
        IN  /\ Len(cs) >= 3
            /\ AllNumeric(cs)
            /\ \E i \in 1..Len(cs) : cs[i].multiplier # FOne
            /\ last.op = "add_recipe"

\* C2: get_consolidated_list returns exactly one entry for each key
\* contributed since the last clear: as many entries as keys, and for each
\* key one entry with its food (title-cased) and its unit.
C2_OneEntryPerKey ==
    last.op = "get_consolidated_list" =>
        /\ Len(last.value) = Cardinality(LoggedKeys)
        /\ \A key \in LoggedKeys :
              Cardinality({j \in 1..Len(last.value) :
                              /\ last.value[j].food = Title(key[1])
                              /\ last.value[j].measure = key[2]}) = 1

\* a list read with two entries of one food under two units, one of them fed
\* by several contributions
C2_Witness ==
    /\ last.op = "get_consolidated_list"
    /\ \E j, k \in 1..Len(last.value) :
          /\ last.value[j].food = last.value[k].food
          /\ last.value[j].measure = Cup
          /\ last.value[k].measure = <<"g">>
    /\ \E key \in LoggedKeys : Len(ContributionsTo(key)) >= 2

\* C7: after clear() the mapping is empty and a read returns the empty list;
\* whatever was added before, the mapping is always what the contributions
\* made since the last clear build from nothing.
C7_ClearResets ==
    /\ last.op = "clear" => items = <<>>
    /\ (last.op = "get_consolidated_list" /\ log = <<>>) => last.value = <<>>
    /\ items = Replay(log, Len(log))

\* a list that was filled, cleared and filled again
C7_Witness ==
    /\ cleared
    /\ last.op = "add_recipe"
    /\ last.after = "clear"
    /\ items # <<>>

\* C8: get_consolidated_list leaves self.items as it was, and a second read
\* right after a read returns the same list.
C8_IdempotentRead ==
    [][last'.op = "get_consolidated_list" =>
          /\ items' = items
          /\ last.op = "get_consolidated_list" => last'.value = last.value]_vars

\* a non-empty list read twice in a row
C8_Witness ==
    /\ last.op = "get_consolidated_list"
    /\ last.after = "get_consolidated_list"
    /\ last.value # <<>>

\* C9: ingredients of one food whose measures differ only in letter case are
\* accumulated under one key: no two entries have the same food and the same
\* case-folded unit.
C9_UnitCaseFolded ==
    \A i, j \in 1..Len(items) :
        (items[i].food = items[j].food /\ Lower(items[i].measure) = Lower(items[j].measure))
            => i = j

\* C10: the stored food and the food of the stored key are the lowercased
\* name, ingredients whose foods differ only in letter case and that share a
\* unit have one entry, and a read shows the title-cased name of each entry.
C10_FoodCaseFolded ==
    /\ \A i \in 1..Len(items) :
          /\ items[i].food = Lower(items[i].food)
          /\ items[i].key[1] = items[i].food
    /\ \A key \in LoggedKeys : Cardinality(ItemsUnder(key)) = 1
    /\ last.op = "get_consolidated_list" =>
          /\ Len(last.value) = Len(items)
          /\ \A i \in 1..Len(items) :
                \E j \in 1..Len(last.value) :
                    /\ last.value[j].food = Title(items[i].food)
                    /\ last.value[j].measure = items[i].measure

\* "Flour" and "FLOUR" under one unit merged into one entry "flour", read as
\* "Flour"
C10_Witness ==
    /\ last.op = "get_consolidated_list"
    /\ \E a, b \in 1..Len(log) :
          /\ log[a].ingredient.food # log[b].ingredient.food
          /\ FoodUnit(log[a].ingredient) = FoodUnit(log[b].ingredient)
          /\ \E i \in ItemsUnder(FoodUnit(log[a].ingredient)) :
                /\ items[i].food = Flour
                /\ \E j \in 1..Len(last.value) :
                      last.value[j].food = <<"F", "l", "o", "u", "r">>

(***************************************************************************)
(* Properties of the distributor.                                          *)
(***************************************************************************)
\* the servings of the recipes, added as integers
RECURSIVE SumServings(_, _)
SumServings(recipes, n) ==
    IF n = 0 THEN 0 ELSE SumServings(recipes, n - 1) + recipes[n].servings

NativeTotal == SumServings(dRecipes, Len(dRecipes))

\* sum(servings_i * multiplier_i), as Python evaluates it on floats
RECURSIVE ServingsProvided(_, _, _)
ServingsProvided(recipes, multipliers, n) ==
    IF n = 0 THEN FZero
    ELSE FAdd(ServingsProvided(recipes, multipliers, n - 1),
              FMul(IntToFloat(recipes[n].servings), multipliers[n]))

Provided == ServingsProvided(dRecipes, dOut.ret, Len(dRecipes))

\* |x - n| <= n * 2^-50 for a float x and an integer n, computed exactly
WithinRounding(x, n) ==
    LET s    == IF x.e < 0 THEN 0 - x.e ELSE 0
        xs   == BShl(x.m, x.e + s)
        ns   == BShl(BFromInt(n), s)
        diff == IF BCmp(xs, ns) >= 0 THEN BSub(xs, ns) ELSE BSub(ns, xs)
    IN  BCmp(BShl(diff, 50), ns) <= 0

UpScaling == dOut.called /\ 0 < NativeTotal /\ NativeTotal < dTarget

UniformScale ==
    /\ dOut.raised = "none"
    /\ Len(dOut.ret) = Len(dRecipes)
    /\ \A i \in 1..Len(dOut.ret) :
          dOut.ret[i] = FDiv(IntToFloat(dTarget), IntToFloat(NativeTotal))

C5_ZeroServingRejected ==
    (dOut.called /\ \E i \in 1..Len(dRecipes) : dRecipes[i].servings = 0)
        => dOut.raised # "none"

\* C6: _generate_shopping_list raises nothing when none of its recipes has
\* zero servings (the target, len(cooking_days) * servings_per_meal, is
\* positive in every run).
C6_NoException ==
    (/\ last.op = "_generate_shopping_list"
     /\ last.target > 0
     /\ \A i \in 1..Len(last.servings) : last.servings[i] # 0)
        => last.raised = "none"

\* a non-empty list of recipes, each with positive servings, and a positive
\* target
PositiveServings ==
    /\ dOut.called
    /\ Len(dRecipes) > 0
    /\ \A i \in 1..Len(dRecipes) : dRecipes[i].servings > 0
    /\ dTarget > 0

\* x >= n * (1 - 2^-50) for a float x and an integer n, computed exactly
CoversWithinRounding(x, n) ==
    LET s  == IF x.e < 0 THEN 0 - x.e ELSE 0
        xs == BShl(x.m, x.e + s)
        ns == BShl(BFromInt(n), s)
    IN  BCmp(xs, ns) >= 0 \/ BCmp(BShl(BSub(ns, xs), 50), ns) <= 0

ContributionStr(c) == IF IsNumeric(c) THEN FloatRepr(Term(c)) ELSE c.ingredient.quantity

\* the place of the first contribution that is no number
FirstNonNumeric(cs) ==
    CHOOSE i \in 1..Len(cs) : ~IsNumeric(cs[i]) /\ \A j \in 1..(i - 1) : IsNumeric(cs[j])

\* the note "<existing> + <new>" after the first n contributions, for n from
\* FirstNonNumeric(cs) on: the sum of the numbers that came before, then
\* every contribution in arrival order
RECURSIVE NoteOf(_, _)
NoteOf(cs, n) ==
    IF n > FirstNonNumeric(cs)
    THEN NoteOf(cs, n - 1) \o <<" ", "+", " ">> \o ContributionStr(cs[n])
    ELSE IF n = 1 THEN cs[1].ingredient.quantity
    ELSE FloatRepr(SumOfTerms(cs, n - 1)) \o <<" ", "+", " ">> \o cs[n].ingredient.quantity

\* C11: when a contribution to a key is no number, the quantity stored under
\* the key is from then on a string: the quantity accumulated before it (if
\* any), then " + " and each contribution since, in arrival order, none
\* dropped; it is never a number again.
C11_ConcatenationFallback ==
    \A key \in LoggedKeys :
        LET cs == ContributionsTo(key)
        IN  ~AllNumeric(cs) =>
                \A i \in ItemsUnder(key) :
                    items[i].quantity = StrQ(NoteOf(cs, Len(cs)))

\* "to taste", then two numbers under the same key: "to taste + 1.0 + 2.0"
C11_Witness ==
    /\ last.op = "add_recipe"
    /\ \E key \in LoggedKeys :
          LET cs == ContributionsTo(key)
          IN  /\ Len(cs) >= 3
              /\ ~IsNumeric(cs[1]) /\ IsNumeric(cs[2]) /\ IsNumeric(cs[3])
              /\ \E i \in ItemsUnder(key) : ~items[i].quantity.num

\* whether the string s ends with the string t
EndsWith(s, t) ==
    Len(s) >= Len(t) /\ SubSeq(s, Len(s) - Len(t) + 1, Len(s)) = t

\* the quantities of the first n contributions as the ingredients spell
\* them, joined by " + "
RECURSIVE JoinedAsSpelled(_, _)
JoinedAsSpelled(cs, n) ==
    IF n = 1 THEN cs[1].ingredient.quantity
    ELSE JoinedAsSpelled(cs, n - 1) \o <<" ", "+", " ">> \o cs[n].ingredient.quantity

\* C12: add_recipe raises nothing; a quantity that float() does not take is
\* stored as the ingredient spells it when it opens its key, and is merged
\* as the ingredient spells it otherwise, whatever the servings_multiplier:
\* the stored quantity ends with it when it came last, and is the
\* contributions as spelled, joined by " + ", when none of them is a number.
C12_NonNumericTolerated ==
    /\ last.op = "add_recipe" => last.raised = "none"
    /\ \A key \in LoggedKeys :
          LET cs == ContributionsTo(key)
          IN  \A i \in ItemsUnder(key) :
                  /\ ~IsNumeric(cs[Len(cs)]) =>
                        /\ ~items[i].quantity.num
                        /\ EndsWith(items[i].quantity.s, cs[Len(cs)].ingredient.quantity)
                  /\ (\A n \in 1..Len(cs) : ~IsNumeric(cs[n])) =>
                        items[i].quantity = StrQ(JoinedAsSpelled(cs, Len(cs)))

\* "to taste" added with the multipliers 1 and 10/3 under one key
C12_Witness ==
    /\ last.op = "add_recipe"
    /\ \E key \in LoggedKeys :
          LET cs == ContributionsTo(key)
          IN  /\ Len(cs) = 2
              /\ ~IsNumeric(cs[1]) /\ ~IsNumeric(cs[2])
              /\ cs[1].multiplier # cs[2].multiplier
              /\ \E i \in ItemsUnder(key) :
                    items[i].quantity.s = JoinedAsSpelled(cs, 2)

(***************************************************************************)
(* Properties of the food, unit and category of an entry.                  *)
(***************************************************************************)
\* the category an ingredient is reported under
CategoryOf(ingredient) ==
    IF ingredient.foodCategory = None \/ ingredient.foodCategory = <<>>
    THEN <<"O", "t", "h", "e", "r">> ELSE ingredient.foodCategory

\* C13: the food, unit and category of an entry are those of the first
\* contribution made under its key since the last clear, whatever the
\* categories of the contributions that came after it.
C13_FirstWriteWins ==
    \A key \in LoggedKeys :
        LET cs == ContributionsTo(key)
        IN  \A i \in ItemsUnder(key) :
                /\ items[i].food = Lower(cs[1].ingredient.food)
                /\ items[i].measure = key[2]
                /\ items[i].category = CategoryOf(cs[1].ingredient)

\* an entry fed by three contributions of three categories
C13_Witness ==
    /\ last.op = "add_recipe"
    /\ \E key \in LoggedKeys :
          LET cs == ContributionsTo(key)
          IN  /\ Len(cs) >= 3
              /\ CategoryOf(cs[1].ingredient) # CategoryOf(cs[2].ingredient)
              /\ CategoryOf(cs[1].ingredient) # CategoryOf(cs[3].ingredient)
              /\ CategoryOf(cs[2].ingredient) # CategoryOf(cs[3].ingredient)
              /\ \E i \in ItemsUnder(key) :
                    items[i].category = CategoryOf(cs[1].ingredient)

Unit == <<"u", "n", "i", "t">>

\* the entries of self.items for a food under the unit "unit"
UnderUnit(food) ==
    {i \in 1..Len(items) :
        /\ items[i].key = <<Lower(food), Unit>>
        /\ items[i].food = Lower(food)
        /\ items[i].measure = Unit}

LexBefore(s, t) ==
    \E i \in 1..(Len(t)) :
        /\ \A j \in 1..(i - 1) : j <= Len(s) /\ s[j] = t[j]
        /\ i > Len(s) \/ (s[i] # t[i] /\ Ord(s[i]) < Ord(t[i]))

\* the place in self.items of the entry that a dict of the list shows
PlaceOf(shown) ==
    CHOOSE i \in 1..Len(items) :
        Title(items[i].food) = shown.food /\ items[i].measure = shown.measure

\* the lists of dicts in which x may stand before y
InOrder(x, y) ==
    \/ LexBefore(x.category, y.category)
    \/ x.category = y.category /\ LexBefore(x.food, y.food)
    \/ x.category = y.category /\ x.food = y.food /\ PlaceOf(x) < PlaceOf(y)

\* C16: the list returned is ordered by category and, within a category, by
\* the food shown, both lexicographically, in whatever order the entries
\* were inserted; entries equal in both stand in insertion order.
C16_SortOrder ==
    last.op = "get_consolidated_list" =>
        /\ Len(last.value) = Len(items)
        /\ \A j, k \in 1..Len(last.value) : j < k => InOrder(last.value[j], last.value[k])

\* four entries inserted in another order than the one they are read in,
\* two of them of one category
C16_Witness ==
    /\ last.op = "get_consolidated_list"
    /\ Len(last.value) >= 4
    /\ \E j, k \in 1..Len(last.value) :
          /\ j < k
          /\ PlaceOf(last.value[j]) > PlaceOf(last.value[k])
    /\ \E j, k \in 1..Len(last.value) :
          /\ last.value[j].category = last.value[k].category
          /\ last.value[j].food # last.value[k].food

\* where the decimal point of a string of digits is (past its end if none)
PointOf(s) ==
    IF \E i \in 1..Len(s) : s[i] = "."
    THEN CHOOSE i \in 1..Len(s) : s[i] = "." ELSE Len(s) + 1

\* a decimal as the list shows a number: digits, no needless zero before
\* them, and then nothing, or a point and one or two digits not ending in 0
ShownAsNumber(s) ==
    LET dot == PointOf(s)
    IN  /\ dot > 1
        /\ \A i \in 1..Len(s) : i # dot => IsDigit(s[i])
        /\ dot > 2 => s[1] # "0"
        /\ dot <= Len(s) => (Len(s) - dot \in {1, 2} /\ s[Len(s)] # "0")

\* the number of hundredths such a decimal denotes: 250 for "2.5"
Hundredths(s) ==
    LET dot  == PointOf(s)
        frac == SubSeq(s, dot + 1, Len(s))
    IN  BFromDecimal(SubSeq(s, 1, dot - 1) \o frac \o Repeat("0", 2 - Len(frac)))

\* n/100 is x rounded to 2 decimals: |x - n/100| <= 1/200, and n is even
\* when x is half-way between two hundredths
RoundedTo2(x, n) ==
    LET k    == IF x.e < 0 THEN 0 - x.e ELSE 0
        a    == BShl(BMulSmall(x.m, 200), x.e + k)
        b    == BShl(BMulSmall(n, 2), k)
        diff == IF BCmp(a, b) >= 0 THEN BSub(a, b) ELSE BSub(b, a)
        c    == BCmp(diff, BShl(<<1>>, k))
    IN  c < 0 \/ (c = 0 /\ ~BIsOdd(n))

\* C17: in the list returned a quantity that is a number is shown rounded
\* to 2 decimals, without trailing zeros and without a trailing point (an
\* integer keeps all its digits); a quantity that is no number is shown as
\* it is stored.
C17_QuantityFormat ==
    last.op = "get_consolidated_list" =>
        \A j \in 1..Len(last.value) :
            LET stored == items[PlaceOf(last.value[j])].quantity
                shown  == last.value[j].quantity
            IN  IF stored.num
                THEN ShownAsNumber(shown) /\ RoundedTo2(stored.f, Hundredths(shown))
                ELSE shown = stored.s

\* a list that shows "500", "0.1", a sum that had to be rounded and a
\* quantity that is no number
C17_Witness ==
    /\ last.op = "get_consolidated_list"
    /\ \E j \in 1..Len(last.value) : last.value[j].quantity = <<"5", "0", "0">>
    /\ \E j \in 1..Len(last.value) : last.value[j].quantity = <<"0", ".", "1">>
    /\ \E j \in 1..Len(last.value) : ~items[PlaceOf(last.value[j])].quantity.num
    /\ \E j \in 1..Len(last.value) :
          LET stored == items[PlaceOf(last.value[j])].quantity
          IN  /\ stored.num
              /\ Len(last.value[j].quantity) - PointOf(last.value[j].quantity) = 2
              /\ ParseFloat(last.value[j].quantity).val # stored.f

(***************************************************************************)
(* More properties of the distributor.                                     *)
(***************************************************************************)
\* C14: for every list of recipes and every target the distributor returns
\* a list with one multiplier per recipe, in the order of the recipes.
\* (Lists with a zero-serving recipe, which are to be rejected, are left to
\* C5.)
C14_OneMultiplierPerRecipe ==
    (dOut.called /\ \A i \in 1..Len(dRecipes) : dRecipes[i].servings # 0) =>
        /\ dOut.raised = "none"
        /\ Len(dOut.ret) = Len(dRecipes)

(***************************************************************************)
(* Properties of a MealPlannerAgent that generates more than once.         *)
(***************************************************************************)
\* the agent has just left _generate_shopping_list
Generated == pc = "idle" /\ runs > 0

\* what a ShoppingList that was never used holds after add_recipe was
\* called for each selected recipe with the multiplier it was given
FreshlyFilled ==
    CHOOSE its \in
        {AddRecipes(<<>>, selected_recipes, dist.ret, Len(selected_recipes))
         : dist \in {calculate_optimal_servings_distribution(
                         selected_recipes,
                         Len(user_preferences.cooking_days)
                             * user_preferences.servings_per_meal)}} : TRUE

\* C18: after each run of _generate_shopping_list the ShoppingList holds,
\* and the list returned shows, what a ShoppingList never used before would
\* after the recipes of this run alone, whatever the earlier runs of the
\* agent added; a run that raised leaves the ShoppingList empty.
C18_GenerationLifecycle ==
    Generated =>
        IF last.raised = "none"
        THEN /\ items = FreshlyFilled
             /\ last.value = get_consolidated_list(FreshlyFilled).ret
        ELSE items = <<>>

\* a second generation on an agent whose first one left entries behind
C18_Witness ==
    /\ Generated
    /\ runs = 2
    /\ cleared
    /\ last.op = "_generate_shopping_list"
    /\ last.after = "_generate_shopping_list"
    /\ last.raised = "none"
    /\ last.value # <<>>

(***************************************************************************)
(* Properties of concurrent planning sessions.                             *)
(***************************************************************************)
\* the connections whose handler holds an agent
Live == {c \in Connections : handlers[c].pc \notin {"free", "closed"}}

\* self.shopping_list.items of the agent of a connection
ItemsOf(c) == heap[handlers[c].agent.shopping_list]

PickedFrom(ret, current_recipes, S) ==
    \E order \in Orders(S) :
        /\ Len(ret) = Len(order)
        /\ \A i \in 1..Len(order) : ret[i] = current_recipes[order[i]]

\* C21: a call on a non-empty recipe list stays in its loop as long as the
\* set of selected indices has not as many elements as there are cooking
\* days, and when it returns that set has exactly that many elements, all
\* within 1..len(current_recipes), and the returned recipes are the
\* recipes of the list on display at those indices, one for each index;
\* this after any replies (selections, unclear ones, MORE_RECIPES, errors).
\* A call on an empty list returns the empty list and has read no reply.
C21_ExactSelection ==
    /\ (selection.pc = "asking") =>
          Cardinality(selection.selected_indices) # selection.needed_recipes
    /\ (selection.pc = "returned" /\ selection.recipes # <<>>) =>
          /\ Cardinality(selection.selected_indices) = selection.needed_recipes
          /\ selection.selected_indices \subseteq 1..Len(selection.current_recipes)
          /\ PickedFrom(selection.ret, selection.current_recipes,
                        selection.selected_indices)
    /\ (selection.pc = "returned" /\ selection.recipes = <<>>) =>
          /\ selection.ret = <<>>
          /\ selection.turns = 0

\* Two recipes are returned from a list that a MORE_RECIPES reply put on
\* display, by the third reply of the call.
C21_Witness ==
    /\ selection.pc = "returned"
    /\ selection.recipes # <<>>
    /\ selection.current_recipes # selection.recipes
    /\ selection.needed_recipes = 2
    /\ Len(selection.ret) = 2
    /\ selection.turns = MaxTurns


\* C22: selections accumulate across turns.  When the user has just been
\* told how many recipes remain to be selected, and the next reply is an
\* array of exactly that many valid indices, none of them selected before,
\* the call returns, and it returns the recipes at the indices of both
\* turns.
C22_SelectionsAccumulate ==
    [][(/\ selection.pc = "asking"
        /\ selection.said = "remaining"
        /\ selection'.turns = selection.turns + 1
        /\ selection'.reply.kind = "array"
        /\ selection'.reply.indices \subseteq 1..Len(selection.current_recipes)
        /\ selection'.reply.indices \cap selection.selected_indices = {}
        /\ Cardinality(selection'.reply.indices) = selection.remaining)
       => /\ selection'.pc = "returned"
          /\ PickedFrom(selection'.ret, selection.current_recipes,
                        selection.selected_indices \cup selection'.reply.indices)]_vars


(***************************************************************************)
(* Properties of _collect_user_preferences.                                *)
(***************************************************************************)
\* pydantic's ValidationError is a ValueError
ValueErrors == {"ValueError", "ValidationError"}

MissingField(object) ==
    \E k \in {"meal_count", "dietary_restrictions", "cuisine_preferences",
              "cooking_days", "servings_per_meal"} : object[k].type = "missing"

IncompleteValues(object) ==
    \/ object.meal_count.type \in {"int", "float"} /\ object.meal_count.number <= 0
    \/ object.cooking_days.type = "list" /\ object.cooking_days.list = <<>>
    \/ /\ object.servings_per_meal.type \in {"int", "float"}
       /\ object.servings_per_meal.number <= 0

\* no JSON object found, malformed JSON, a missing field, incomplete values
ExtractionFailed(extraction) ==
    \/ extraction.kind \in {"no object", "malformed"}
    \/ /\ extraction.kind = "object"
       /\ MissingField(extraction.object) \/ IncompleteValues(extraction.object)

\* C23: the preferences _collect_user_preferences returns have a positive
\* meal_count, at least one cooking day and a positive servings_per_meal,
\* so that len(cooking_days) * servings_per_meal is positive; and a call
\* whose extraction failed (no JSON object, malformed JSON, a missing
\* field, incomplete values) has not returned but raised ValueError.
C23_ValidatedPreferences ==
    /\ (collecting.pc = "returned") =>
          /\ collecting.ret.meal_count > 0
          /\ Len(collecting.ret.cooking_days) > 0
          /\ collecting.ret.servings_per_meal > 0
          /\ Len(collecting.ret.cooking_days) * collecting.ret.servings_per_meal > 0
    /\ (collecting.pc \in {"returned", "raised"}
          /\ ExtractionFailed(collecting.extraction)) =>
          /\ collecting.pc = "raised"
          /\ collecting.raised \in ValueErrors


(***************************************************************************)
(* Properties of the registries of src/app.py.                             *)
(***************************************************************************)
\* the handler of connection c is between its registration and its cleanup
Registered(c) == handlers[c].pc \notin {"free", "closed"}

====
